---- MODULE Spec2Model ----
(***************************************************************************)
(* A model of the Morse code encoder/decoder of morse.h: the code table,   *)
(* morse_decode, morse_reverse_char_array, morse_encode, morse_tests and   *)
(* the command line program main.  Bytes are the integers 0..255; a C      *)
(* array is a sequence whose element at C index i is At(arr, i).           *)
(***************************************************************************)
EXTENDS Integers, Sequences, FiniteSets, TLC

\* Bounds of the model.
MaxInLen == 6
MaxArgs == 2
MaxOpLen == 2

\* Byte values of the characters the code names.
NUL == 0
STAR == 42
QMARK == 63
SPACE == 32
NEWLINE == 10
CH_A == 65
CH_Z == 90
MORSE_DOT == 46
MORSE_DASH == 45

\* size_t is narrowed to the positive range of the checker's integers: no
\* index of the program exceeds 127, so the only use of the largest value
\* is as the "not found" marker.
SIZE_MAX == 2147483647

\* unsigned char out[6]
OUT_SIZE == 6

\* The string literal "**ETIANMSURWDKGOHVF?L?PJBXCYZQ??" as the array of
\* sizeof(MORSE_CODEC) bytes the compiler lays out: 32 characters and the
\* terminating NUL.
MORSE_CODEC_Q2O ==
  << 42, 42, 69, 84, 73, 65, 78, 77, 83, 85, 82, 87, 68, 75, 71, 79,
     72, 86, 70, 63, 76, 63, 80, 74, 66, 88, 67, 89, 90, 79, 63, 63, 0 >>

MORSE_CODEC ==
  << 42, 42, 69, 84, 73, 65, 78, 77, 83, 85, 82, 87, 68, 75, 71, 79,
     72, 86, 70, 63, 76, 63, 80, 74, 66, 88, 67, 89, 90, 81, 63, 63, 0 >>

VARIABLES
  codec,    \* the memory of the code table
  call,     \* the function under execution: encode, decode, tests, main
  pc,       \* ready, decode, encode (main's loops), done
  ch,       \* morse_encode's input byte; morse_tests' loop variable
  buf,      \* the 6 byte output buffer of morse_encode
  str,      \* morse_decode's input: the bytes at in[0], in[1], ...
  r,        \* morse_tests: the result of the last morse_decode
  ret,      \* the value returned (main: the exit status)
  writes,   \* the indices of buf morse_encode has written
  reads,    \* the indices of str morse_decode has read
  lookups,  \* the indices of the code table morse_decode has read
  argv,     \* main's argument vector
  i,        \* main's operand index
  j,        \* main's character index in the operand (encode)
  stdout    \* the bytes written to stdout

vars == << codec, call, pc, ch, buf, str, r, ret, writes, reads, lookups,
           argv, i, j, stdout >>

\* arr[i] of C
At(arr, k) == arr[k + 1]

\* MORSE_CODEC[i]
CodecAt(k) == At(codec, k)

\* sizeof(MORSE_CODEC) - 1
MORSE_CODEC_LENGTH == Len(codec) - 1

(***************************************************************************)
(* morse_decode                                                            *)
(***************************************************************************)

\* the loop condition n < MORSE_CODEC_LENGTH
DecodeLoopCond_le(n) == n <= MORSE_CODEC_LENGTH

DecodeLoopCond_twice(n) == n < 2 * MORSE_CODEC_LENGTH

DecodeLoopCond(n) == n < MORSE_CODEC_LENGTH

\* n = (n << 1)
DecodeDot_odd(n) == n * 2 + 1

DecodeDot(n) == n * 2

\* n = (n << 1) + 1
DecodeDash(n) == n * 2 + 1

\* out = n > MORSE_CODEC_LENGTH ? '?' : MORSE_CODEC[n]
DecodeResult(n) == IF n > MORSE_CODEC_LENGTH THEN QMARK ELSE CodecAt(n)

\* the table indices that statement reads
DecodeLookup(n) == IF n > MORSE_CODEC_LENGTH THEN {} ELSE {n}

\* return -1
DecodeInvalid_unknown == QMARK

DecodeInvalid == -1

\* The for loop, from the state (n, j); rd and lk collect the indices of
\* the input and of the table read so far.  Leaving the loop by its
\* condition returns out's initial value '?'.
RECURSIVE morse_decode_loop(_, _, _, _, _)
morse_decode_loop(in, n, jj, rd, lk) ==
  IF ~DecodeLoopCond(n)
  THEN [ret |-> QMARK, reads |-> rd, lookups |-> lk]
  ELSE LET c == At(in, jj)
           rd2 == rd \cup {jj}
       IN  IF c = MORSE_DOT
           THEN morse_decode_loop(in, DecodeDot(n), jj + 1, rd2, lk)
           ELSE IF c = MORSE_DASH
           THEN morse_decode_loop(in, DecodeDash(n), jj + 1, rd2, lk)
           ELSE IF c = NUL
           THEN [ret |-> DecodeResult(n), reads |-> rd2,
                 lookups |-> lk \cup DecodeLookup(n)]
           ELSE [ret |-> DecodeInvalid, reads |-> rd2, lookups |-> lk]

morse_decode(in) == morse_decode_loop(in, 1, 0, {}, {})

(***************************************************************************)
(* morse_reverse_char_array and morse_encode                               *)
(***************************************************************************)

\* r[k] = v; a store outside the array is recorded by the caller in the
\* set of written indices and leaves the array as it is
Store(arr, k, v) == IF k >= 0 /\ k < Len(arr) THEN [arr EXCEPT ![k + 1] = v] ELSE arr

\* the loop of morse_reverse_char_array from index k
RECURSIVE ReverseLoop(_, _, _, _, _)
ReverseLoop(arr, last, length, k, wr) ==
  IF ~(k < length \div 2)
  THEN [out |-> arr, writes |-> wr]
  ELSE LET t == At(arr, k)
           a1 == Store(arr, k, At(arr, last - k))
           a2 == Store(a1, last - k, t)
       IN  ReverseLoop(a2, last, length, k + 1, wr \cup {k, last - k})

morse_reverse_char_array_none(arr, length) == [out |-> arr, writes |-> {}]

morse_reverse_char_array_last(arr, length) == ReverseLoop(arr, length, length, 0, {})

morse_reverse_char_array(arr, length) == ReverseLoop(arr, length - 1, length, 0, {})

\* the search loop: the first index below MORSE_CODEC_LENGTH holding in
EncodeFind(in) ==
  LET hits == {k \in 0..(MORSE_CODEC_LENGTH - 1) : CodecAt(k) = in}
  IN  IF hits = {} THEN SIZE_MAX
      ELSE CHOOSE k \in hits : \A m \in hits : k <= m

\* pos == SIZE_MAX || MORSE_CODEC[pos] == '*' || MORSE_CODEC[pos] == '?'
EncodeReject_star(pos) == pos = SIZE_MAX \/ CodecAt(pos) = STAR

EncodeReject(pos) ==
  pos = SIZE_MAX \/ CodecAt(pos) = STAR \/ CodecAt(pos) = QMARK

\* (pos & 1) ? MORSE_DASH : MORSE_DOT
EncodeSymbol_swapped(pos) == IF pos % 2 = 1 THEN MORSE_DOT ELSE MORSE_DASH

EncodeSymbol(pos) == IF pos % 2 = 1 THEN MORSE_DASH ELSE MORSE_DOT

\* for (i = 0; (next = pos >> 1); i++) { out[i] = ...; pos = next; }
RECURSIVE morse_encode_loop(_, _, _, _)
morse_encode_loop(pos, k, out, wr) ==
  LET next == pos \div 2
  IN  IF next = 0
      THEN [i |-> k, out |-> out, writes |-> wr]
      ELSE morse_encode_loop(next, k + 1, Store(out, k, EncodeSymbol(pos)),
                             wr \cup {k})

morse_encode(in) ==
  LET zero == [k \in 1..OUT_SIZE |-> NUL]
      w0 == 0..(OUT_SIZE - 1)
      pos == EncodeFind(in)
  IN  IF EncodeReject(pos)
      THEN [ret |-> -1, out |-> zero, writes |-> w0]
      ELSE LET l == morse_encode_loop(pos, 0, zero, w0)
               rv == morse_reverse_char_array(l.out, l.i)
           IN  [ret |-> 0, out |-> rv.out, writes |-> l.writes \cup rv.writes]

(***************************************************************************)
(* morse_tests                                                             *)
(***************************************************************************)

\* one iteration of the loop over ch: fail is the value returned, or 0 when
\* the loop goes on
TestsIter(c) ==
  LET e == morse_encode(c)
      d == morse_decode(e.out)
  IN  IF e.ret < 0 THEN [buf |-> e.out, r |-> 0, fail |-> -1]
      ELSE IF d.ret < 0 THEN [buf |-> e.out, r |-> d.ret, fail |-> -2]
      ELSE IF d.ret # c THEN [buf |-> e.out, r |-> d.ret, fail |-> -c]
      ELSE [buf |-> e.out, r |-> d.ret, fail |-> 0]

RECURSIVE morse_tests_from(_)
morse_tests_from(c) ==
  IF c > CH_Z THEN 0
  ELSE IF TestsIter(c).fail < 0 THEN TestsIter(c).fail
  ELSE morse_tests_from(c + 1)

morse_tests == morse_tests_from(CH_A)

(***************************************************************************)
(* main                                                                    *)
(***************************************************************************)

\* the characters of a C string: the bytes before its first NUL
RECURSIVE CStrFrom(_, _)
CStrFrom(arr, k) ==
  IF k >= Len(arr) \/ At(arr, k) = NUL THEN << >>
  ELSE << At(arr, k) >> \o CStrFrom(arr, k + 1)

CStr(arr) == CStrFrom(arr, 0)

\* !strcmp(a, b)
StrEq(a, b) == CStr(a) = CStr(b)

\* toupper in the C locale
toupper(c) == IF c >= 97 /\ c <= 122 THEN c - 32 ELSE c

\* the byte fprintf's %c writes for an int
ByteOf(n) == n % 256

STR_morse == << 109, 111, 114, 115, 101, NUL >>
STR_encode == << 101, 110, 99, 111, 100, 101, NUL >>
STR_decode == << 100, 101, 99, 111, 100, 101, NUL >>
STR_help == << 104, 101, 108, 112, NUL >>

\* int decode = -1; "encode" sets it to 0, "decode" to 1
MainCommand(arg) ==
  IF StrEq(arg, STR_decode) THEN 1
  ELSE IF StrEq(arg, STR_encode) THEN 0
  ELSE -1

argc == Len(argv)

(***************************************************************************)
(* Inputs                                                                  *)
(***************************************************************************)

\* the sequences over S of length at most n
RECURSIVE SeqsUpTo(_, _)
SeqsUpTo(S, n) ==
  IF n = 0 THEN {<< >>}
  ELSE LET shorter == SeqsUpTo(S, n - 1)
       IN  shorter \cup {Append(s, x) : s \in {t \in shorter : Len(t) = n - 1}, x \in S}

\* the bytes decode inputs are made of: the two symbols, the terminator and
\* one byte that is none of them ('x')
DecodeBytes == {MORSE_DOT, MORSE_DASH, NUL, 120}

\* a decode input: up to MaxInLen bytes, embedded terminators included,
\* and the NUL that ends the C string
DecodeInputs == {s \o << NUL >> : s \in SeqsUpTo(DecodeBytes, MaxInLen)}

\* the bytes operands are made of: '.', a symbol that is no letter, and
\* 'e', a lowercase letter that is no symbol
ArgBytes == {MORSE_DOT, 101}

Operands == {s \o << NUL >> : s \in SeqsUpTo(ArgBytes, MaxOpLen)}

Argvs ==
  {<< STR_morse >>} \cup
  {<< STR_morse, c >> \o ops :
     c \in {STR_encode, STR_decode, STR_help}, ops \in SeqsUpTo(Operands, MaxArgs)}

NoBuf == [k \in 1..OUT_SIZE |-> NUL]

Idle ==
  /\ codec = MORSE_CODEC
  /\ pc = "ready"
  /\ buf = NoBuf
  /\ r = 0
  /\ ret = 0
  /\ writes = {}
  /\ reads = {}
  /\ lookups = {}
  /\ i = 0
  /\ j = 0
  /\ stdout = << >>

InitEncode ==
  /\ Idle
  /\ call = "encode"
  /\ ch \in 0..255
  /\ str = << NUL >>
  /\ argv = << >>

InitDecode ==
  /\ Idle
  /\ call = "decode"
  /\ ch = 0
  /\ str \in DecodeInputs
  /\ argv = << >>

InitTests ==
  /\ Idle
  /\ call = "tests"
  /\ ch = CH_A
  /\ str = << NUL >>
  /\ argv = << >>

InitMain ==
  /\ Idle
  /\ call = "main"
  /\ ch = 0
  /\ str = << NUL >>
  /\ argv \in Argvs

Init == InitEncode \/ InitDecode \/ InitTests \/ InitMain

(***************************************************************************)
(* Actions                                                                 *)
(***************************************************************************)

Encode ==
  /\ call = "encode"
  /\ pc = "ready"
  /\ LET e == morse_encode(ch)
     IN  /\ buf' = e.out
         /\ ret' = e.ret
         /\ writes' = e.writes
  /\ pc' = "done"
  /\ UNCHANGED << codec, call, ch, str, r, reads, lookups, argv, i, j, stdout >>

Decode ==
  /\ call = "decode"
  /\ pc = "ready"
  /\ LET d == morse_decode(str)
     IN  /\ ret' = d.ret
         /\ reads' = d.reads
         /\ lookups' = d.lookups
  /\ pc' = "done"
  /\ UNCHANGED << codec, call, ch, buf, str, r, writes, argv, i, j, stdout >>

TestsLoop ==
  /\ call = "tests"
  /\ pc = "ready"
  /\ ch <= CH_Z
  /\ LET it == TestsIter(ch)
     IN  /\ buf' = it.buf
         /\ r' = it.r
         /\ IF it.fail < 0
            THEN ret' = it.fail /\ pc' = "done" /\ ch' = ch
            ELSE ret' = ret /\ pc' = pc /\ ch' = ch + 1
  /\ UNCHANGED << codec, call, str, writes, reads, lookups, argv, i, j, stdout >>

TestsReturn ==
  /\ call = "tests"
  /\ pc = "ready"
  /\ ch > CH_Z
  /\ ret' = 0
  /\ pc' = "done"
  /\ UNCHANGED << codec, call, ch, buf, str, r, writes, reads, lookups, argv, i, j, stdout >>

\* main up to the choice of the subcommand.  The usage text goes to stderr,
\* which is not part of the state.
MainStart ==
  /\ call = "main"
  /\ pc = "ready"
  /\ IF morse_tests < 0
     THEN ret' = 1 /\ pc' = "done"
     ELSE IF argc < 2
     THEN ret' = 2 /\ pc' = "done"
     ELSE IF MainCommand(At(argv, 1)) < 0
     THEN ret' = 3 /\ pc' = "done"
     ELSE IF MainCommand(At(argv, 1)) # 0
     THEN ret' = ret /\ pc' = "decode"
     ELSE ret' = ret /\ pc' = "encode"
  /\ i' = 2
  /\ j' = 0
  /\ UNCHANGED << codec, call, ch, buf, str, r, writes, reads, lookups, argv, stdout >>

\* for (i = 2; i < argc; i++) fprintf(stdout, "%c", morse_decode(argv[i]))
MainDecodeOperand ==
  /\ call = "main"
  /\ pc = "decode"
  /\ i < argc
  /\ \E ok \in BOOLEAN :
       IF ok
       THEN /\ stdout' = Append(stdout, ByteOf(morse_decode(At(argv, i)).ret))
            /\ i' = i + 1
            /\ UNCHANGED << pc, ret >>
       ELSE /\ ret' = 4
            /\ pc' = "done"
            /\ UNCHANGED << i, stdout >>
  /\ UNCHANGED << codec, call, ch, buf, str, r, writes, reads, lookups, argv, j >>

\* the newline after the last operand of decode
MainDecodeEnd ==
  /\ call = "main"
  /\ pc = "decode"
  /\ ~(i < argc)
  /\ \E ok \in BOOLEAN :
       IF ok
       THEN stdout' = Append(stdout, NEWLINE) /\ ret' = 0
       ELSE stdout' = stdout /\ ret' = 5
  /\ pc' = "done"
  /\ UNCHANGED << codec, call, ch, buf, str, r, writes, reads, lookups, argv, i, j >>

\* one character of an operand of encode
MainEncodeChar ==
  /\ call = "main"
  /\ pc = "encode"
  /\ i < argc
  /\ At(At(argv, i), j) # NUL
  /\ LET e == morse_encode(toupper(At(At(argv, i), j)))
     IN  IF e.ret < 0
         THEN /\ ret' = 6
              /\ pc' = "done"
              /\ UNCHANGED << j, stdout >>
         ELSE \E ok \in BOOLEAN :
                IF ok
                THEN /\ stdout' = stdout \o CStr(e.out) \o << SPACE >>
                     /\ j' = j + 1
                     /\ UNCHANGED << pc, ret >>
                ELSE /\ ret' = 7
                     /\ pc' = "done"
                     /\ UNCHANGED << j, stdout >>
  /\ UNCHANGED << codec, call, ch, buf, str, r, writes, reads, lookups, argv, i >>

\* the newline after an operand of encode
MainEncodeEol ==
  /\ call = "main"
  /\ pc = "encode"
  /\ i < argc
  /\ At(At(argv, i), j) = NUL
  /\ \E ok \in BOOLEAN :
       IF ok
       THEN /\ stdout' = Append(stdout, NEWLINE)
            /\ i' = i + 1
            /\ j' = 0
            /\ UNCHANGED << pc, ret >>
       ELSE /\ ret' = 8
            /\ pc' = "done"
            /\ UNCHANGED << i, j, stdout >>
  /\ UNCHANGED << codec, call, ch, buf, str, r, writes, reads, lookups, argv >>

MainEncodeEnd ==
  /\ call = "main"
  /\ pc = "encode"
  /\ ~(i < argc)
  /\ ret' = 0
  /\ pc' = "done"
  /\ UNCHANGED << codec, call, ch, buf, str, r, writes, reads, lookups, argv, i, j, stdout >>

Next ==
  \/ Encode
  \/ Decode
  \/ TestsLoop
  \/ TestsReturn
  \/ MainStart
  \/ MainDecodeOperand
  \/ MainDecodeEnd
  \/ MainEncodeChar
  \/ MainEncodeEol
  \/ MainEncodeEnd

Spec == Init /\ [][Next]_vars

(***************************************************************************)
(* Vocabulary of the properties                                            *)
(***************************************************************************)

Letters == CH_A..CH_Z

Symbols == {MORSE_DOT, MORSE_DASH}

EncodeDone == call = "encode" /\ pc = "done"

DecodeDone == call = "decode" /\ pc = "done"

\* the index of the first terminator of a C string
FirstNul(s) == Len(CStr(s))

\* the positions before the first terminator holding a byte that is
\* neither DOT nor DASH
BadPositions(s) == {k \in 0..(FirstNul(s) - 1) : At(s, k) \notin Symbols}

\* the tree index of a word of symbols: n = 1, DOT: 2n, DASH: 2n + 1
RECURSIVE TreeIndex(_)
TreeIndex(w) ==
  IF w = << >> THEN 1
  ELSE 2 * TreeIndex(SubSeq(w, 1, Len(w) - 1))
       + (IF w[Len(w)] = MORSE_DASH THEN 1 ELSE 0)

\* the root-to-leaf path of a tree index: its binary digits below the
\* leading 1, most significant first, 0 as '.', 1 as '-'
RECURSIVE PathOf(_)
PathOf(pos) ==
  IF pos <= 1 THEN << >>
  ELSE Append(PathOf(pos \div 2), IF pos % 2 = 0 THEN 46 ELSE 45)

RECURSIVE Log2Floor(_)
Log2Floor(pos) == IF pos <= 1 THEN 0 ELSE 1 + Log2Floor(pos \div 2)

\* the bytes of an input morse_decode can depend on: the first 5, or those
\* up to and including the first terminator when it comes earlier
Examined(s) ==
  SubSeq(s, 1, IF FirstNul(s) + 1 < 5 THEN FirstNul(s) + 1 ELSE 5)

\* continuations of an input
Tails == {<< NUL >>, << MORSE_DOT, NUL >>, << MORSE_DASH, NUL >>, << 120, NUL >>}

(***************************************************************************)
(* Properties                                                              *)
(***************************************************************************)

\* C1: round trip.  For every letter c of 'A'..'Z' morse_encode(c) returns 0
\* and morse_decode of the word it produced returns c, never an error and
\* never a sentinel; morse_tests, which does this for the 26 letters in one
\* pass, returns 0.
C1_RoundTrip ==
  /\ (EncodeDone /\ ch \in Letters) =>
       (ret = 0 /\ morse_decode(buf).ret = ch)
  /\ (call = "tests" /\ ch > CH_A) =>
       (r = ch - 1 /\ morse_decode(buf).ret = r /\ r \in Letters)
  /\ (call = "tests" /\ pc = "done") => (ret = 0 /\ ch = CH_Z + 1)

C1_Witness ==
  call = "tests" /\ pc = "done" /\ ch = CH_Z + 1 /\ r = CH_Z /\ ret = 0

\* C2: rejection.  morse_encode fails (negative result) for every byte of
\* 0..255 that is not an uppercase letter, '*', '?', NUL, lowercase letters
\* and digits included.
C2_Rejection == (EncodeDone /\ ch \notin Letters) => ret < 0

C2_Witness == EncodeDone /\ ch = QMARK /\ ret < 0

\* C3 as stated: an input with a byte other than '.', '-' before its first
\* terminator makes morse_decode fail, whatever the number of valid symbols
\* before that byte.
C3_Original == (DecodeDone /\ BadPositions(str) # {}) => ret < 0

\* C3, amended: morse_decode fails with -1 when a byte other than '.', '-'
\* stands before the first terminator among the first 5 bytes of the input;
\* a bad byte preceded by 5 or more valid symbols is never examined and the
\* result is '?'.
C3_FirstBadSymbol ==
  DecodeDone =>
    /\ (\E k \in BadPositions(str) : k < 5) => ret = -1
    /\ (BadPositions(str) # {} /\ \A k \in BadPositions(str) : k >= 5) =>
         ret = QMARK

C3_Witness ==
  DecodeDone /\ BadPositions(str) = {4} /\ FirstNul(str) = 6 /\ ret = -1

\* C4: for a word of DOTs and DASHes followed by the end marker, of any
\* length, morse_decode succeeds and returns the table entry at the tree
\* index n of the word when n is an index of the table (sentinels included)
\* and '?' when n is beyond it; the empty word gives '*', a word of 6 or
\* more symbols gives '?'.
C4_DecodeLookup ==
  (DecodeDone /\ BadPositions(str) = {}) =>
    LET w == CStr(str)
        n == TreeIndex(w)
    IN  /\ ret >= 0
        /\ n < MORSE_CODEC_LENGTH => ret = CodecAt(n)
        /\ n >= MORSE_CODEC_LENGTH => ret = QMARK
        /\ w = << >> => ret = STAR
        /\ Len(w) >= 6 => ret = QMARK

C4_Witness ==
  DecodeDone /\ CStr(str) = << 45, 45, 46, 45 >> /\ ret = 81

\* the next step of main is a core call that fails
MainCoreFails ==
  /\ call = "main"
  /\ i < argc
  /\ \/ pc = "decode" /\ morse_decode(At(argv, i)).ret < 0
     \/ /\ pc = "encode"
        /\ At(At(argv, i), j) # NUL
        /\ morse_encode(toupper(At(At(argv, i), j))).ret < 0

\* C5: in both subcommands, as soon as a core call fails for an operand the
\* invocation ends with a non-zero exit status, writing nothing for that
\* operand and processing no later one.
C5_FailurePropagation ==
  [][MainCoreFails => (pc' = "done" /\ ret' # 0 /\ stdout' = stdout)]_vars

\* C6: morse_encode writes only indices 0..5 of the output buffer, and on
\* success the buffer holds 1 to 5 symbols, each '.' or '-', then NUL in
\* every remaining byte up to index 5.
C6_EncodeBuffer ==
  EncodeDone =>
    /\ writes \subseteq 0..5
    /\ Len(buf) = 6
    /\ ret = 0 =>
         \E k \in 1..5 :
           /\ \A m \in 0..(k - 1) : At(buf, m) \in Symbols
           /\ \A m \in k..5 : At(buf, m) = NUL

C6_Witness ==
  EncodeDone /\ ret = 0 /\ ch = 72 /\ writes = 0..5
  /\ buf = << 46, 46, 46, 46, 0, 0 >>

\* the table entries at indices 0..last: '*' at 0 and at the root 1, every
\* entry '*', '?' or an uppercase letter, every letter exactly once
TableShape(last) ==
  /\ CodecAt(0) = STAR
  /\ CodecAt(1) = STAR
  /\ \A k \in 0..last : CodecAt(k) \in {STAR, QMARK} \cup Letters
  /\ \A c \in Letters : Cardinality({k \in 0..last : CodecAt(k) = c}) = 1

\* C7 as stated: the table is 33 characters, indices 0..32, each '*', '?'
\* or a letter.
C7_Original == Len(codec) = 33 /\ TableShape(32)

\* C7, amended: the table is a constant sequence of 32 characters, indices
\* 0..31 (the byte at index 32 is the string's NUL terminator), with '*' at
\* 0 and 1, every entry '*', '?' or an uppercase letter and every letter
\* exactly once; no operation changes it.
C7_CodeTable ==
  /\ [](Len(codec) = 33 /\ CodecAt(32) = NUL /\ TableShape(31))
  /\ [][codec' = codec]_vars

C7_Witness ==
  /\ call = "main" /\ pc = "done" /\ ret = 0 /\ stdout # << >>
  /\ MORSE_CODEC_LENGTH = 32 /\ TableShape(31)

\* C8: for a letter found at table index pos, morse_encode emits the
\* root-to-leaf path of pos: the binary digits of pos below its leading 1,
\* most significant first, 0 as '.', 1 as '-', floor(log2(pos)) symbols;
\* 'E' gives ".", 'T' gives "-", 'Q' gives "--.-".
C8_EncodePath ==
  (EncodeDone /\ ch \in Letters) =>
    LET pos == EncodeFind(ch)
    IN  /\ ret = 0
        /\ CodecAt(pos) = ch
        /\ CStr(buf) = PathOf(pos)
        /\ Len(CStr(buf)) = Log2Floor(pos)
        /\ ch = 69 => CStr(buf) = << 46 >>
        /\ ch = 84 => CStr(buf) = << 45 >>
        /\ ch = 81 => CStr(buf) = << 45, 45, 46, 45 >>

C8_Witness ==
  EncodeDone /\ ch = 81 /\ EncodeFind(ch) = 29
  /\ CStr(buf) = << 45, 45, 46, 45 >>

\* C9: whenever morse_decode reads the table, the index is at least 1 and
\* at most the index of the last table character; a non-negative result is
\* '*', '?' or a letter, never the NUL terminator of the table.
C9_LookupInRange ==
  DecodeDone =>
    /\ lookups \subseteq 1..(MORSE_CODEC_LENGTH - 1)
    /\ ret >= 0 => ret \in {STAR, QMARK} \cup Letters

C9_Witness ==
  DecodeDone /\ lookups = {MORSE_CODEC_LENGTH - 1} /\ ret = QMARK

\* C10: morse_decode examines at most the first 5 input bytes and no byte
\* after the first terminator; its result is that of any input with the
\* same first 5 bytes, or the same bytes up to and including the first
\* terminator when that comes earlier.
C10_BoundedReads ==
  DecodeDone =>
    /\ reads \subseteq 0..4
    /\ reads \subseteq 0..FirstNul(str)
    /\ \A t \in Tails : morse_decode(Examined(str) \o t).ret = ret

C10_Witness ==
  DecodeDone /\ reads = 0..4 /\ FirstNul(str) = 6 /\ At(str, 5) = 120
  /\ ret = QMARK

====
